---- MODULE Spec2Model ----
(***************************************************************************)
(* Model of FinScraper (src/main.py): a ticker watchlist kept in memory    *)
(* and in tickers.txt, a record extractor that assembles a 22-field record *)
(* from a quote page, a balance sheet and a price history, a table that is *)
(* rebuilt on every refresh, and an exporter.  The details panel           *)
(* (show_ticker_details, on_table_select) only reads the table and is left *)
(* out.                                                                    *)
(*                                                                         *)
(* Text is modelled as a sequence of one-character strings, so that strip, *)
(* upper and splitlines are computed character by character.  Dictionary  *)
(* keys (column names, snapshot labels) are TLA+ strings.                  *)
(***************************************************************************)
EXTENDS Integers, Sequences, FiniteSets, TLC

VARIABLES
    pc,            \* "boot" before the module-level startup code ran, "running" in mainloop
    file_exists,   \* os.path.exists(TICKERS_FILE)
    file,          \* content of TICKERS_FILE (characters)
    tickers_list,  \* the global tickers_list
    rows,          \* rows of the Treeview `table`, each a 22-tuple of values
    reports,       \* message boxes shown by the last handler, in order
    calls,         \* tickers passed to scrape_finviz_and_fill by the last handler, in order
    saves,         \* number of save_tickers() calls made by the last handler
    refreshes,     \* number of refresh_table() calls made by the last handler
    exported,      \* what the last handler wrote with wb.save: sheet rows, <<>> when nothing
    lastOp,        \* the last handler, its input and the upstream answers it met
    xpc,           \* record extractor run on its own: "input" or "done"
    xticker,       \* its ticker argument
    xworld,        \* the upstream answers it meets
    xresult        \* what the call produced

vars == <<pc, file_exists, file, tickers_list, rows, reports, calls,
          saves, refreshes, exported, lastOp, xpc, xticker, xworld, xresult>>

progVars == <<pc, file_exists, file, tickers_list, rows, reports, calls,
              saves, refreshes, exported, lastOp>>

extVars == <<xpc, xticker, xworld, xresult>>

(***************************************************************************)
(* Bounds of the model.                                                    *)
(***************************************************************************)
MaxFileLen == 3     \* longest enumerated initial file content, in characters
MaxTickers == 2     \* fetch_data is not offered once the watchlist is longer than this
MaxCells == 3       \* most <td> cells of the enumerated snapshot tables
MaxSymLen == 1      \* longest enumerated entry of a watchlist that is persisted and loaded

(***************************************************************************)
(* Text.                                                                   *)
(***************************************************************************)
Range(s) == {s[i] : i \in DOMAIN s}

\* Characters the enumerated file contents are drawn from.
Alphabet == {"a", " ", "\n"}

\* str.isspace characters among those modelled.
Whitespace == {" ", "\n"}

\* Line boundaries of str.splitlines among the characters modelled.
LineBreaks == {"\n"}

\* All texts over S with at most n characters.
TextsUpTo(S, n) == UNION {[1..k -> S] : k \in 0..n}

\* str.upper, per character.
UpperChar(c) ==
    CASE c = "a" -> "A"
      [] c = "b" -> "B"
      [] c = "p" -> "P"
      [] c = "l" -> "L"
      [] OTHER -> c

Upper(s) == [i \in DOMAIN s |-> UpperChar(s[i])]

RECURSIVE LStrip(_)
LStrip(s) == IF s # <<>> /\ Head(s) \in Whitespace THEN LStrip(Tail(s)) ELSE s

RECURSIVE RStrip(_)
RStrip(s) ==
    IF s # <<>> /\ s[Len(s)] \in Whitespace THEN RStrip(SubSeq(s, 1, Len(s) - 1)) ELSE s

\* str.strip()
Strip(s) == RStrip(LStrip(s))

\* str.splitlines(): pieces between line boundaries, no empty piece after a
\* final boundary, [] for the empty text.
RECURSIVE SplitFrom(_, _, _)
SplitFrom(s, cur, acc) ==
    IF s = <<>> THEN (IF cur = <<>> THEN acc ELSE Append(acc, cur))
    ELSE IF Head(s) \in LineBreaks THEN SplitFrom(Tail(s), <<>>, Append(acc, cur))
    ELSE SplitFrom(Tail(s), Append(cur, Head(s)), acc)

SplitLines(s) == SplitFrom(s, <<>>, <<>>)

(***************************************************************************)
(* Watchlist store: load_tickers and save_tickers.                         *)
(***************************************************************************)
\* The ticker the startup code ensures ("AAPL").
SEED == <<"A", "A", "P", "L">>

\* The loop body of load_tickers over the lines read, appending to `list`.
RECURSIVE LoadLines(_, _)
LoadLines(lines, list) ==
    IF lines = <<>> THEN list
    ELSE LET ticker == Upper(Strip(Head(lines)))
         IN  IF ticker # <<>> /\ ticker \notin Range(list)
             THEN LoadLines(Tail(lines), Append(list, ticker))
             ELSE LoadLines(Tail(lines), list)

\* A load that appends the lines as they are, neither normalised nor checked.
load_tickers_skipcheck(exists, content, list) ==
    IF exists THEN list \o SplitLines(Strip(content)) ELSE list

\* load_tickers(): tickers_list after the call.
load_tickers(exists, content, list) ==
    IF exists THEN LoadLines(SplitLines(Strip(content)), list) ELSE list

\* A save that writes the symbols without a line end after each.
RECURSIVE save_tickers_nonewline(_)
save_tickers_nonewline(list) ==
    IF list = <<>> THEN <<>> ELSE Head(list) \o save_tickers_nonewline(Tail(list))

\* save_tickers(): the content written to TICKERS_FILE.
RECURSIVE save_tickers(_)
save_tickers(list) ==
    IF list = <<>> THEN <<>> ELSE Head(list) \o <<"\n">> \o save_tickers(Tail(list))

(***************************************************************************)
(* Python values and dictionaries.                                         *)
(***************************************************************************)
\* Python's None: a value that is no text (its element is not a character).
None == <<"None">>

\* The sentinel "N/A".
NA == <<"N", "/", "A">>

EmptyDict == <<>>

\* d[k] = v
Put(d, k, v) == (k :> v) @@ d

\* d.get(k, default)
Get(d, k, default) == IF k \in DOMAIN d THEN d[k] ELSE default

(***************************************************************************)
(* Number formatting.                                                      *)
(***************************************************************************)
DigitChar(d) == <<"0", "1", "2", "3", "4", "5", "6", "7", "8", "9">>[d + 1]

\* str(n) for a natural number n
RECURSIVE Digits(_)
Digits(n) == IF n < 10 THEN <<DigitChar(n)>> ELSE Append(Digits(n \div 10), DigitChar(n % 10))

\* Three digits, zero-padded (a group after the first one).
Group3(n) == <<DigitChar(n \div 100), DigitChar((n \div 10) % 10), DigitChar(n % 10)>>

\* f"{n:,}" for a natural number n
RECURSIVE FormatThousands(_)
FormatThousands(n) ==
    IF n < 1000 THEN Digits(n)
    ELSE FormatThousands(n \div 1000) \o <<",">> \o Group3(n % 1000)

\* Lines 111-114 and 120-123: a Python int or float is formatted with thousands
\* separators (a float of integral value ends in ".0"); anything else, such as a
\* numpy integer, goes through str().
FormatCell(cell) ==
    CASE cell.kind = "int" -> FormatThousands(cell.v)
      [] cell.kind = "float" -> FormatThousands(cell.v) \o <<".", "0">>
      [] OTHER -> Digits(cell.v)

\* f"{((end - start) / start) * 100:.2f}%" for positive closes.
FormatChange(start_price, end_price) ==
    LET diff == end_price - start_price
        mag == IF diff < 0 THEN -diff ELSE diff
        h == (mag * 10000 * 2 + start_price) \div (2 * start_price)  \* hundredths, rounded
        sign == IF diff < 0 /\ h > 0 THEN <<"-">> ELSE <<>>
    IN  sign \o Digits(h \div 100) \o <<".">>
             \o <<DigitChar((h \div 10) % 10), DigitChar(h % 10)>> \o <<"%">>

(***************************************************************************)
(* Record extractor: scrape_finviz_and_fill.                               *)
(*                                                                         *)
(* The upstream answers one call meets are a record `w`:                   *)
(*   w.http     "ok", "http_error" (raise_for_status raises HTTPError) or  *)
(*              "conn_error" (requests.get raises)                         *)
(*   w.table    whether the page has a table of class snapshot-table2      *)
(*   w.tds      the texts of its <td> cells: label, value, label, ...      *)
(*   w.company  <<>> when the heading is absent, else <<its text>>         *)
(*   w.sector   <<>> when the container is absent, else <<texts of its     *)
(*              links>>                                                    *)
(*   w.price    <<>> when the price element is absent, else <<its text>>   *)
(*   w.bal      the balance sheet: [raises, empty, rows], rows a dict from *)
(*              index names to cells [kind, v], kind "int", "float", "obj" *)
(*              or "raise" (looking the row up raises)                     *)
(*   w.hist     the price history: [raises, closes]                        *)
(***************************************************************************)
\* The 22 columns (lines 237-242 and 412-417).
columns ==
    <<"Ticker", "Company", "Sector", "Price", "Change 5Y", "Dividends", "Dividend TTM",
      "EPS", "EPS Next Y, %", "EPS Next 5Y, %", "Revenue", "Revenue 5Y growth",
      "Oper. Income", "Net Income", "ROA", "ROE", "ROI", "P/E", "P/S", "P/B",
      "Total Assets", "Total Liabilities">>

\* desired_fields, in insertion order; a label of None is <<>>, a label is <<label>>.
desired_fields ==
    << <<"Company", <<>> >>, <<"Sector", <<>> >>, <<"Price", <<>> >>,
       <<"Change 5Y", <<>> >>,
       <<"Dividends", <<"Dividend Est.">> >>,
       <<"Dividend TTM", <<"Dividend TTM">> >>,
       <<"EPS", <<"EPS (ttm)">> >>,
       <<"EPS Next Y, %", <<"EPS next Y">> >>,
       <<"EPS Next 5Y, %", <<"EPS next 5Y">> >>,
       <<"Revenue", <<"Sales">> >>,
       <<"Revenue 5Y growth", <<"Sales past 5Y">> >>,
       <<"Oper. Income", <<"Oper. Margin">> >>,
       <<"Net Income", <<"Profit Margin">> >>,
       <<"ROA", <<"ROA">> >>, <<"ROE", <<"ROE">> >>, <<"ROI", <<"ROI">> >>,
       <<"P/E", <<"P/E">> >>, <<"P/S", <<"P/S">> >>, <<"P/B", <<"P/B">> >> >>

\* Lines 63-69: the label -> value mapping of the snapshot table; the value of a
\* trailing unpaired label is "N/A".
RECURSIVE PairCells(_, _, _)
PairCells(tds, i, field_values) ==
    IF i > Len(tds) THEN field_values
    ELSE LET label == tds[i]
             value == IF i + 1 <= Len(tds) THEN tds[i + 1] ELSE NA
         IN  PairCells(tds, i + 2, Put(field_values, label, value))

snapshot_values(w) == IF w.table THEN PairCells(w.tds, 1, EmptyDict) ELSE EmptyDict

\* Lines 72-73
company_name(w) == IF w.company # <<>> THEN w.company[1] ELSE NA

\* Lines 76-81
sector_of(w) ==
    IF w.sector # <<>> /\ Len(w.sector[1]) >= 1 THEN w.sector[1][1] ELSE NA

\* Lines 84-85
price_of(w) == IF w.price # <<>> THEN w.price[1] ELSE NA

\* Lines 88-93
direct_fields(ticker, w) ==
    [k \in {"Ticker", "Company", "Sector", "Price"} |->
        CASE k = "Ticker" -> ticker
          [] k = "Company" -> (IF company_name(w) # <<>> THEN company_name(w) ELSE NA)
          [] k = "Sector" -> sector_of(w)
          [] OTHER -> price_of(w)]

\* Lines 97-102: one iteration of the loop over desired_fields
fill_one(result, field_name, finviz_label, field_values) ==
    IF field_name \in {"Company", "Sector", "Price"} THEN result
    ELSE IF finviz_label = <<>> THEN Put(result, field_name, NA)
    ELSE Put(result, field_name, Get(field_values, finviz_label[1], NA))

\* Lines 96-102
RECURSIVE finviz_fields(_, _, _)
finviz_fields(result, i, field_values) ==
    IF i > Len(desired_fields) THEN result
    ELSE finviz_fields(
            fill_one(result, desired_fields[i][1], desired_fields[i][2], field_values),
            i + 1, field_values)

\* Lines 129-131: the except branch of the balance-sheet block
\* An except branch that resets only one of the two fields.
balance_except_one(result) == Put(result, "Total Assets", NA)

balance_except(result) ==
    Put(Put(result, "Total Assets", NA), "Total Liabilities", NA)

\* Lines 109-116 (key "Total Assets") and 118-125 (key "Total Liabilities"):
\* [raised, result] after resolving one row.
balance_row(result, rows_, index_name, key) ==
    IF index_name \in DOMAIN rows_
    THEN IF rows_[index_name].kind = "raise"
         THEN [raised |-> TRUE, result |-> result]
         ELSE [raised |-> FALSE, result |-> Put(result, key, FormatCell(rows_[index_name]))]
    ELSE [raised |-> FALSE, result |-> Put(result, key, NA)]

\* Lines 106-131
balance_sheet(result, bal) ==
    IF bal.raises THEN balance_except(result)
    ELSE IF bal.empty
    THEN Put(Put(result, "Total Assets", NA), "Total Liabilities", NA)
    ELSE LET a == balance_row(result, bal.rows, "Total Assets", "Total Assets")
         IN  IF a.raised THEN balance_except(a.result)
             ELSE LET l == balance_row(a.result, bal.rows,
                                       "Total Liabilities Net Minority Interest",
                                       "Total Liabilities")
                  IN  IF l.raised THEN balance_except(l.result) ELSE l.result

\* Lines 134-144
change_5y(result, hist) ==
    IF hist.raises THEN Put(result, "Change 5Y", NA)
    ELSE IF hist.closes # <<>>
    THEN Put(result, "Change 5Y",
             FormatChange(hist.closes[1], hist.closes[Len(hist.closes)]))
    ELSE Put(result, "Change 5Y", NA)

\* Lines 31-146: [raised, data]; raised is "none" when the record is returned.
scrape_finviz_and_fill(ticker, w) ==
    IF w.http = "conn_error" THEN [raised |-> "Exception", data |-> EmptyDict]
    ELSE IF w.http = "http_error" THEN [raised |-> "HTTPError", data |-> EmptyDict]
    ELSE [raised |-> "none",
          data |-> change_5y(
                      balance_sheet(
                          finviz_fields(direct_fields(ticker, w), 1, snapshot_values(w)),
                          w.bal),
                      w.hist)]

(***************************************************************************)
(* Upstream answers the handlers of the running program are checked with.  *)
(***************************************************************************)
TextApple == <<"A", "p", "p", "l", "e">>
TextTech == <<"T", "e", "c", "h">>
TextPrice == <<"1", "8", "9", ".", "5">>
TextRatio == <<"2", "8", ".", "1">>

NoBalance == [raises |-> FALSE, empty |-> TRUE, rows |-> EmptyDict]
NoHistory == [raises |-> FALSE, closes |-> <<>>]

\* A page with every fragment, a balance sheet with both rows, a price history.
FullWorld ==
    [http |-> "ok", table |-> TRUE, tds |-> <<"P/E", TextRatio>>,
     company |-> <<TextApple>>, sector |-> << <<TextTech>> >>, price |-> <<TextPrice>>,
     bal |-> [raises |-> FALSE, empty |-> FALSE,
              rows |-> [k \in {"Total Assets", "Total Liabilities Net Minority Interest"} |->
                          IF k = "Total Assets" THEN [kind |-> "float", v |-> 1234567]
                          ELSE [kind |-> "int", v |-> 999]]],
     hist |-> [raises |-> FALSE, closes |-> <<100, 150>>]]

\* The primary fetch fails: raise_for_status raises, or requests.get does.
FailWorld(kind) ==
    [http |-> kind, table |-> FALSE, tds |-> <<>>, company |-> <<>>, sector |-> <<>>,
     price |-> <<>>, bal |-> NoBalance, hist |-> NoHistory]

\* The answers the handlers meet per ticker, by the outcome of the primary fetch.
Outcomes == {"ok", "http_error", "conn_error"}



\* The record extracted from FullWorld; the ticker argument only feeds the
\* "Ticker" field (line 89), which extract() sets.
FullData == scrape_finviz_and_fill(<<>>, FullWorld).data

\* scrape_finviz_and_fill(ticker) as called at lines 173 and 224, meeting `outcome`.
extract(ticker, outcome) ==
    IF outcome = "ok"
    THEN [raised |-> "none", data |-> Put(FullData, "Ticker", ticker)]
    ELSE scrape_finviz_and_fill(ticker, FailWorld(outcome))

(***************************************************************************)
(* Handlers.                                                               *)
(***************************************************************************)
\* Messages of the message boxes: <<level, text, ticker>>.
Msg(level, text, ticker) == <<level, text, ticker>>

\* Lines 181-204 and 246-269: the values of one row, data.get(column, "N/A").
RowOf(data) == [j \in 1..Len(columns) |-> Get(data, columns[j], NA)]

\* Lines 172-204: one iteration of the loop of refresh_table.
refresh_step(list, ws, i, acc) ==
    LET ticker == list[i]
        r == extract(ticker, ws[i])
    IN  IF r.raised = "HTTPError"
        THEN [rows |-> acc.rows, calls |-> Append(acc.calls, ticker),
              reports |-> Append(acc.reports, Msg("error", "HTTP Error fetching", ticker))]
        ELSE IF r.raised = "Exception"
        THEN [rows |-> acc.rows, calls |-> Append(acc.calls, ticker),
              reports |-> Append(acc.reports, Msg("error", "Error fetching", ticker))]
        ELSE [rows |-> Append(acc.rows, RowOf(r.data)), reports |-> acc.reports,
              calls |-> Append(acc.calls, ticker)]

RECURSIVE refresh_loop(_, _, _, _)
refresh_loop(list, ws, i, acc) ==
    IF i > Len(list) THEN acc
    ELSE refresh_loop(list, ws, i + 1, refresh_step(list, ws, i, acc))

\* A refresh that gives up at the first ticker whose extraction fails.
RECURSIVE refresh_loop_abort(_, _, _, _)
refresh_loop_abort(list, ws, i, acc) ==
    IF i > Len(list) THEN acc
    ELSE LET nxt == refresh_step(list, ws, i, acc)
         IN  IF Len(nxt.reports) > Len(acc.reports) THEN nxt
             ELSE refresh_loop_abort(list, ws, i + 1, nxt)

refresh_table_abort(list, ws) ==
    refresh_loop_abort(list, ws, 1, [rows |-> <<>>, reports |-> <<>>, calls |-> <<>>])

\* refresh_table(): the rows of the table, the errors shown and the extractor
\* calls made, for watchlist `list` meeting primary-fetch outcomes ws[1..Len(list)].
\* Lines 168-169 discard the old rows: the new rows start from the empty table.
refresh_table(list, ws) ==
    refresh_loop(list, ws, 1,
                 [rows |-> <<>>, reports |-> <<>>, calls |-> <<>>])

\* A fetch loop of the export that shows an error for a failed ticker.
export_step_report(list, ws, i, acc) ==
    LET r == extract(list[i], ws[i])
    IN  IF r.raised = "none"
        THEN [records |-> Append(acc.records, r.data), reports |-> acc.reports,
              calls |-> Append(acc.calls, list[i])]
        ELSE [records |-> acc.records, calls |-> Append(acc.calls, list[i]),
              reports |-> Append(acc.reports, Msg("error", "Error fetching", list[i]))]

\* Lines 222-227: one iteration of the fetch loop of export_to_xlsx; the bare
\* except swallows every failure.
export_step(list, ws, i, acc) ==
    LET r == extract(list[i], ws[i])
    IN  IF r.raised = "none"
        THEN [records |-> Append(acc.records, r.data), reports |-> acc.reports,
              calls |-> Append(acc.calls, list[i])]
        ELSE [records |-> acc.records, reports |-> acc.reports,
              calls |-> Append(acc.calls, list[i])]

RECURSIVE export_loop(_, _, _, _)
export_loop(list, ws, i, acc) ==
    IF i > Len(list) THEN acc
    ELSE export_loop(list, ws, i + 1, export_step(list, ws, i, acc))

\* Lines 244-270: the sheet, header row first.
sheet_of(records) == <<columns>> \o [j \in 1..Len(records) |-> RowOf(records[j])]

\* An export without the two early returns.
export_to_xlsx_always(list, ws, filepath) ==
    LET got == export_loop(list, ws, 1, [records |-> <<>>, reports |-> <<>>, calls |-> <<>>])
    IN  [exported |-> sheet_of(got.records), calls |-> got.calls,
         reports |-> Append(got.reports, Msg("info", "Data exported to", <<>>))]

\* export_to_xlsx(): what is written, what is shown and the extractor calls made;
\* `filepath` tells whether the save dialog returned a path.
export_to_xlsx(list, ws, filepath) ==
    IF list = <<>>
    THEN [exported |-> <<>>, calls |-> <<>>,
          reports |-> <<Msg("info", "No tickers to export.", <<>>)>>]
    ELSE LET got == export_loop(list, ws, 1,
                                [records |-> <<>>, reports |-> <<>>, calls |-> <<>>])
         IN  IF got.records = <<>>
             THEN [exported |-> <<>>, calls |-> got.calls,
                   reports |-> Append(got.reports, Msg("info", "No data to export.", <<>>))]
             ELSE IF filepath
             THEN [exported |-> sheet_of(got.records), calls |-> got.calls,
                   reports |-> Append(got.reports, Msg("info", "Data exported to", <<>>))]
             ELSE [exported |-> <<>>, calls |-> got.calls, reports |-> got.reports]

\* An entry that is trimmed but not upper-cased.
entry_ticker_noupper(text) == Strip(text)

\* Line 150: ticker_entry.get().strip().upper()
entry_ticker(text) == Upper(Strip(text))

\* A membership test that never finds the ticker.
already_listed_never(ticker, list) == FALSE

\* Line 155: ticker in tickers_list
already_listed(ticker, list) == ticker \in Range(list)

(***************************************************************************)
(* The running program: startup code and the handlers wired to the UI.     *)
(***************************************************************************)
\* Contents tickers.txt may have when the program starts: every short text, and
\* files that already hold the seed ticker in some spelling.
SeedSpellings == {SEED, <<"a", "a", "p", "l">>}

InitFiles ==
    TextsUpTo(Alphabet, MaxFileLen)
    \cup {pre \o v \o post :
            pre \in TextsUpTo({" "}, 1), v \in SeedSpellings,
            post \in {<<>>, <<"\n">>, <<"\n", "b", "\n">>, <<"\n">> \o SEED \o <<"\n">>}}

\* Texts the user may have typed into ticker_entry: nothing, blanks, and
\* symbols in lower or upper case with blanks around or inside them.
Inputs ==
    {<<>>, <<" ">>, <<" ", "\n">>,
     <<"a">>, <<"A">>, <<" ", "a", "\n">>,
     <<"b">>, <<"B", " ">>,
     <<"a", " ", "b">>,
     <<"a", "a", "p", "l">>}

IdleResult == [raised |-> "none", data |-> EmptyDict]

ExtractorIdle ==
    /\ xpc = "idle"
    /\ xticker = <<>>
    /\ xworld = FullWorld
    /\ xresult = IdleResult

Op(op, input, worlds, path) == [op |-> op, input |-> input, worlds |-> worlds, path |-> path]

\* Lines 13 and 361-444: the state before load_tickers() runs.
Init ==
    /\ pc = "boot"
    /\ file_exists \in BOOLEAN
    /\ file \in (IF file_exists THEN InitFiles ELSE {<<>>})
    /\ tickers_list = <<>>
    /\ rows = <<>>
    /\ reports = <<>>
    /\ calls = <<>>
    /\ saves = 0
    /\ refreshes = 0
    /\ exported = <<>>
    /\ lastOp = Op("init", <<>>, <<>>, FALSE)
    /\ ExtractorIdle

\* Lines 446-454: load_tickers(), the seed, refresh_table().
Startup ==
    /\ pc = "boot"
    /\ LET loaded == load_tickers(file_exists, file, tickers_list)
           seeded == SEED \notin Range(loaded)
           list == IF seeded THEN Append(loaded, SEED) ELSE loaded
       IN  \E ws \in [1..Len(list) -> Outcomes] :
              LET shown == refresh_table(list, ws)
              IN  /\ tickers_list' = list
                  /\ file' = (IF seeded THEN save_tickers(list) ELSE file)
                  /\ file_exists' = (seeded \/ file_exists)
                  /\ saves' = (IF seeded THEN 1 ELSE 0)
                  /\ rows' = shown.rows
                  /\ reports' = shown.reports
                  /\ calls' = shown.calls
                  /\ refreshes' = 1
                  /\ lastOp' = Op("startup", <<>>, ws, FALSE)
    /\ pc' = "running"
    /\ exported' = <<>>
    /\ UNCHANGED extVars

\* Lines 148-163: fetch_data(), the "Fetch Data" button, with `text` in the entry.
FetchData ==
    /\ pc = "running"
    /\ Len(tickers_list) < MaxTickers
    /\ \E text \in Inputs :
         LET ticker == entry_ticker(text)
         IN  IF ticker = <<>>
             THEN /\ reports' = <<Msg("warning", "Please enter a ticker.", <<>>)>>
                  /\ lastOp' = Op("add", text, <<>>, FALSE)
                  /\ calls' = <<>>
                  /\ saves' = 0
                  /\ refreshes' = 0
                  /\ UNCHANGED <<tickers_list, file, file_exists, rows>>
             ELSE IF already_listed(ticker, tickers_list)
             THEN /\ reports' = <<Msg("info", "is already in the list.", ticker)>>
                  /\ lastOp' = Op("add", text, <<>>, FALSE)
                  /\ calls' = <<>>
                  /\ saves' = 0
                  /\ refreshes' = 0
                  /\ UNCHANGED <<tickers_list, file, file_exists, rows>>
             ELSE LET list == Append(tickers_list, ticker)
                  IN  \E ws \in [1..Len(list) -> Outcomes] :
                         LET shown == refresh_table(list, ws)
                         IN  /\ tickers_list' = list
                             /\ file' = save_tickers(list)
                             /\ file_exists' = TRUE
                             /\ saves' = 1
                             /\ rows' = shown.rows
                             /\ reports' = shown.reports
                             /\ calls' = shown.calls
                             /\ refreshes' = 1
                             /\ lastOp' = Op("add", text, ws, FALSE)
    /\ exported' = <<>>
    /\ UNCHANGED <<pc, extVars>>

\* Lines 206-212: clear_tickers(), the "Clear Tickers" menu entry.  (Line 212
\* resets the details panel, which is not part of this model.)
ClearTickers ==
    /\ pc = "running"
    /\ LET list == <<>>
           shown == refresh_table(list, <<>>)
       IN  /\ tickers_list' = list
           /\ file' = save_tickers(list)
           /\ file_exists' = TRUE
           /\ rows' = shown.rows
           /\ reports' = shown.reports
           /\ calls' = shown.calls
    /\ saves' = 1
    /\ refreshes' = 1
    /\ exported' = <<>>
    /\ lastOp' = Op("clear", <<>>, <<>>, FALSE)
    /\ UNCHANGED <<pc, extVars>>

\* Lines 214-279: export_to_xlsx(), the "Export to XLSX" menu entry.
ExportToXlsx ==
    /\ pc = "running"
    /\ \E ws \in [1..Len(tickers_list) -> Outcomes], filepath \in BOOLEAN :
         LET out == export_to_xlsx(tickers_list, ws, filepath)
         IN  /\ (\A i \in DOMAIN ws : ws[i] # "ok") => filepath = FALSE  \* no dialog is shown
             /\ exported' = out.exported
             /\ reports' = out.reports
             /\ calls' = out.calls
             /\ lastOp' = Op("export", <<>>, ws, filepath)
    /\ saves' = 0
    /\ refreshes' = 0
    /\ UNCHANGED <<pc, file, file_exists, tickers_list, rows, extVars>>

Next == Startup \/ FetchData \/ ClearTickers \/ ExportToXlsx

Spec == Init /\ [][Next]_vars

(***************************************************************************)
(* The record extractor on its own, over every combination of upstream     *)
(* answers.                                                                *)
(***************************************************************************)
SnapLabels == {"P/E", "ROA", "Index"}

\* Cell texts of a snapshot table with n cells: labels and values alternate.
RECURSIVE TdsOf(_)
TdsOf(n) ==
    IF n = 0 THEN {<<>>}
    ELSE {Append(t, c) : t \in TdsOf(n - 1),
                         c \in (IF n % 2 = 1 THEN SnapLabels ELSE {TextRatio})}

BalCells ==
    {[kind |-> "int", v |-> 1234567], [kind |-> "float", v |-> 999],
     [kind |-> "obj", v |-> 0], [kind |-> "raise", v |-> 0]}

\* Balance sheets: the query raises, the frame is empty, or it has any of the two
\* rows, each with a Python number, another object, or a lookup that raises.
BalanceSheets ==
    {[raises |-> TRUE, empty |-> FALSE, rows |-> EmptyDict], NoBalance}
    \cup {[raises |-> FALSE, empty |-> FALSE, rows |-> EmptyDict]}
    \cup {[raises |-> FALSE, empty |-> FALSE, rows |-> ("Total Assets" :> a)] : a \in BalCells}
    \cup {[raises |-> FALSE, empty |-> FALSE,
           rows |-> ("Total Liabilities Net Minority Interest" :> l)] : l \in BalCells}
    \cup {[raises |-> FALSE, empty |-> FALSE,
           rows |-> ("Total Assets" :> a) @@ ("Total Liabilities Net Minority Interest" :> l)] :
             a \in BalCells, l \in BalCells}

Histories ==
    {[raises |-> TRUE, closes |-> <<>>], NoHistory}
    \cup {[raises |-> FALSE, closes |-> c] : c \in {<<100>>, <<100, 120, 150>>, <<4, 3>>}}

XWorlds ==
    {FailWorld("http_error"), FailWorld("conn_error")}
    \cup {[http |-> "ok", table |-> tb.table, tds |-> tb.tds, company |-> c, sector |-> sc,
           price |-> pr, bal |-> b, hist |-> h] :
            tb \in {[table |-> FALSE, tds |-> <<>>]}
                   \cup {[table |-> TRUE, tds |-> t] : t \in UNION {TdsOf(n) : n \in 0..MaxCells}},
            c \in {<<>>, << <<>> >>, <<TextApple>>},
            sc \in {<<>>, << <<>> >>, << <<TextTech>> >>},
            pr \in {<<>>, <<TextPrice>>},
            b \in BalanceSheets, h \in Histories}

ProgramOff ==
    /\ pc = "off"
    /\ file_exists = FALSE
    /\ file = <<>>
    /\ tickers_list = <<>>
    /\ rows = <<>>
    /\ reports = <<>>
    /\ calls = <<>>
    /\ saves = 0
    /\ refreshes = 0
    /\ exported = <<>>
    /\ lastOp = Op("init", <<>>, <<>>, FALSE)

XInit ==
    /\ ProgramOff
    /\ xpc = "input"
    /\ xticker = SEED
    /\ xworld \in XWorlds
    /\ xresult = IdleResult

\* One call of scrape_finviz_and_fill(xticker).
XScrape ==
    /\ xpc = "input"
    /\ xresult' = scrape_finviz_and_fill(xticker, xworld)
    /\ xpc' = "done"
    /\ UNCHANGED <<progVars, xticker, xworld>>

XNext == XScrape

SpecExtract == XInit /\ [][XNext]_vars

(***************************************************************************)
(* The watchlist store on its own: persist a watchlist, load it into a     *)
(* fresh store, load it again.                                             *)
(***************************************************************************)
StoreAlphabet == {"A", "B", "b", " ", "\n"}

StoreTexts ==
    TextsUpTo(StoreAlphabet, MaxSymLen)
    \cup {<<"A", "B">>, <<" ", "A">>, <<"A", " ">>, <<"A", "\n", "B">>}

StoreLists == UNION {[1..n -> StoreTexts] : n \in 0..MaxTickers}

\* lastOp.input keeps the watchlist that was persisted, lastOp.worlds the store
\* before the latest load.
SInit ==
    /\ pc = "store"
    /\ file_exists = FALSE
    /\ file = <<>>
    /\ tickers_list \in StoreLists
    /\ rows = <<>>
    /\ reports = <<>>
    /\ calls = <<>>
    /\ saves = 0
    /\ refreshes = 0
    /\ exported = <<>>
    /\ lastOp = Op("init", <<>>, <<>>, FALSE)
    /\ ExtractorIdle

\* save_tickers(); the process then ends, and a new one starts with the empty
\* tickers_list of line 13.
SPersist ==
    /\ pc = "store"
    /\ file' = save_tickers(tickers_list)
    /\ file_exists' = TRUE
    /\ saves' = 1
    /\ lastOp' = Op("persist", tickers_list, <<>>, FALSE)
    /\ tickers_list' = <<>>
    /\ pc' = "saved"
    /\ UNCHANGED <<rows, reports, calls, refreshes, exported, extVars>>

\* load_tickers(), a first and a second time.
SLoad ==
    /\ pc \in {"saved", "loaded"}
    /\ tickers_list' = load_tickers(file_exists, file, tickers_list)
    /\ lastOp' = Op("load", lastOp.input, tickers_list, FALSE)
    /\ pc' = (IF pc = "saved" THEN "loaded" ELSE "reloaded")
    /\ saves' = 0
    /\ UNCHANGED <<file, file_exists, rows, reports, calls, refreshes, exported, extVars>>

SNext == SPersist \/ SLoad

SpecStore == SInit /\ [][SNext]_vars

(***************************************************************************)
(* Vocabulary of the properties, stated without the operators of the model *)
(* where that is possible.                                                 *)
(***************************************************************************)
NoDuplicates(list) == \A i, j \in DOMAIN list : list[i] = list[j] => i = j

Occurrences(t, list) == Cardinality({i \in DOMAIN list : list[i] = t})

\* t is s without its leading and trailing whitespace.
IsTrimOf(t, s) ==
    \E i \in 1..(Len(s) + 1), j \in 0..Len(s) :
        /\ i <= j + 1
        /\ t = SubSeq(s, i, j)
        /\ \A k \in 1..(i - 1) : s[k] \in Whitespace
        /\ \A k \in (j + 1)..Len(s) : s[k] \in Whitespace
        /\ t # <<>> => (t[1] \notin Whitespace /\ t[Len(t)] \notin Whitespace)

TrimOf(s) ==
    CHOOSE t \in {SubSeq(s, i, j) : i \in 1..(Len(s) + 1), j \in 0..Len(s)} : IsTrimOf(t, s)

\* upper(trim(s))
Normal(s) == Upper(TrimOf(s))

\* The k-th smallest element of a set of numbers.
KthOf(S, k) == CHOOSE i \in S : Cardinality({j \in S : j <= i}) = k

\* The entries of seq at the positions in S, in order.
Pick(seq, S) == [k \in 1..Cardinality(S) |-> seq[KthOf(S, k)]]

\* The normalised persisted sequence: every line trimmed and upper-cased, blank
\* lines and repeats dropped, in first-seen order; empty when the file is missing.
NormalisedFile(exists, content) ==
    IF ~exists THEN <<>>
    ELSE LET lines == SplitLines(content)
             norm == [i \in DOMAIN lines |-> Normal(lines[i])]
             kept == {i \in DOMAIN norm :
                        norm[i] # <<>> /\ \A j \in 1..(i - 1) : norm[j] # norm[i]}
         IN  Pick(norm, kept)

\* The positions of the last batch whose primary fetch succeeded / failed.
Succeeded == {i \in DOMAIN lastOp.worlds : lastOp.worlds[i] = "ok"}
Failed == {i \in DOMAIN lastOp.worlds : lastOp.worlds[i] # "ok"}

\* The "Ticker" column of a sequence of rows.
TickerColumn(rs) == [i \in DOMAIN rs |-> rs[i][1]]

\* A symbol of the data model: a non-empty text of upper-case letters.
IsSymbol(t) == t # <<>> /\ \A i \in DOMAIN t : t[i] \in {"A", "B", "P", "L"}

(***************************************************************************)
(* C1                                                                      *)
(***************************************************************************)
\* C1: the watchlist never holds a symbol twice; and a fetch_data step whose
\* input is non-empty after trimming leaves the watchlist holding
\* upper(trim(input)) exactly once, at the end and after the unchanged earlier
\* entries when it was not there before.
C1_AddOnceUpperTrimmed ==
    [][/\ NoDuplicates(tickers_list')
       /\ lastOp'.op = "add" =>
            LET t == Normal(lastOp'.input)
            IN  t # <<>> =>
                  /\ Occurrences(t, tickers_list') = 1
                  /\ t \notin Range(tickers_list) => tickers_list' = Append(tickers_list, t)]_vars

\* A lower-case input with blanks around it was appended after an earlier entry.
C1_Witness ==
    /\ lastOp.op = "add"
    /\ lastOp.input = <<" ", "a", "\n">>
    /\ refreshes = 1
    /\ tickers_list = <<SEED, <<"A">> >>

(***************************************************************************)
(* C2                                                                      *)
(***************************************************************************)
\* C2: a fetch_data step whose input is empty after trimming, or whose
\* normal form is already in the watchlist, shows one message and changes
\* neither the watchlist, the file nor the table rows, and runs neither
\* save_tickers nor refresh_table.
C2_RejectedAddChangesNothing ==
    [][lastOp'.op = "add" =>
         LET t == Normal(lastOp'.input)
         IN  (t = <<>> \/ t \in Range(tickers_list)) =>
               /\ tickers_list' = tickers_list
               /\ file' = file
               /\ file_exists' = file_exists
               /\ rows' = rows
               /\ saves' = 0
               /\ refreshes' = 0
               /\ calls' = <<>>
               /\ Len(reports') = 1
               /\ reports'[1][1] \in {"warning", "info"}
               /\ (t = <<>>) <=> (reports'[1][2] = "Please enter a ticker.")
               /\ (t # <<>>) <=> (reports'[1][2] = "is already in the list.")]_vars

\* A symbol already listed was entered in another spelling while the table had rows.
C2_Witness ==
    /\ lastOp.op = "add"
    /\ lastOp.input = <<"a", "a", "p", "l">>
    /\ SEED \in Range(tickers_list)
    /\ reports = <<Msg("info", "is already in the list.", SEED)>>
    /\ rows # <<>>
    /\ saves = 0

(***************************************************************************)
(* C3                                                                      *)
(***************************************************************************)
\* C3: once the startup code has run, and after every handler, the file exists
\* and its lines are exactly the watchlist, in order.
C3_FileHoldsWatchlist ==
    pc = "running" => (file_exists /\ SplitLines(file) = tickers_list)

(***************************************************************************)
(* C6                                                                      *)
(***************************************************************************)
\* C6: after a handler that refreshed the table, the extractor was called once
\* per watchlist ticker, in order, whatever failed, and the rows are those of the
\* tickers whose extraction succeeded, in watchlist order; after clear there is
\* no row.
C6_RowsAreSucceededTickers ==
    /\ refreshes = 1 =>
         /\ DOMAIN lastOp.worlds = DOMAIN tickers_list
         /\ calls = tickers_list
         /\ TickerColumn(rows) = Pick(tickers_list, Succeeded)
         /\ NoDuplicates(TickerColumn(rows))
         /\ \A i \in DOMAIN rows : Len(rows[i]) = Len(columns)
    /\ lastOp.op = "clear" => (refreshes = 1 /\ rows = <<>>)

\* A refresh in which the first ticker failed and a later one was inserted.
C6_Witness ==
    /\ refreshes = 1
    /\ Len(tickers_list) >= 2
    /\ lastOp.worlds[1] # "ok"
    /\ lastOp.worlds[2] = "ok"
    /\ Len(rows) = 1

(***************************************************************************)
(* C7                                                                      *)
(***************************************************************************)
\* C7: export writes nothing and says "No tickers to export." on an empty
\* watchlist, writes nothing and says "No data to export." when every extraction
\* failed; otherwise what it writes (when the dialog gave a path) is the header
\* of the 22 column names and one row per succeeded ticker, in watchlist order.
C7_ExportFile ==
    lastOp.op = "export" =>
        /\ tickers_list = <<>> =>
             (exported = <<>> /\ reports = <<Msg("info", "No tickers to export.", <<>>)>>)
        /\ (tickers_list # <<>> /\ Succeeded = {}) =>
             /\ exported = <<>>
             /\ reports # <<>>
             /\ reports[Len(reports)] = Msg("info", "No data to export.", <<>>)
        /\ Succeeded # {} =>
             /\ (exported # <<>>) <=> lastOp.path
             /\ exported # <<>> =>
                  /\ Len(columns) = 22
                  /\ exported[1] = columns
                  /\ TickerColumn(Tail(exported)) = Pick(tickers_list, Succeeded)
                  /\ \A i \in 2..Len(exported) : Len(exported[i]) = 22

\* An export that wrote a file although one ticker failed.
C7_Witness ==
    /\ lastOp.op = "export"
    /\ Failed # {}
    /\ Len(exported) = 2
    /\ Len(tickers_list) = 2

(***************************************************************************)
(* C8                                                                      *)
(***************************************************************************)
FailedIn(ws) == {i \in DOMAIN ws : ws[i] # "ok"}

ErrorsFor(rep, t) == {i \in DOMAIN rep : rep[i][1] = "error" /\ rep[i][3] = t}

\* What every batch (a refresh or an export) keeps when a primary fetch fails:
\* the extractor is still called for every ticker, an export leaves watchlist
\* and file alone, and an accepted add is appended and saved whatever failed.
BatchKeepsGoing ==
    /\ (refreshes' = 1 \/ lastOp'.op = "export") =>
          (calls' = tickers_list' /\ DOMAIN lastOp'.worlds = DOMAIN tickers_list')
    /\ lastOp'.op = "export" =>
          (tickers_list' = tickers_list /\ file' = file /\ file_exists' = file_exists)
    /\ (lastOp'.op = "add" /\ refreshes' = 1) =>
          /\ tickers_list' = Append(tickers_list, Normal(lastOp'.input))
          /\ file_exists'
          /\ SplitLines(file') = tickers_list'

\* C8 as stated: in a refresh and in an export alike, every ticker whose
\* primary fetch failed is reported to the user, the batch goes on, and the
\* watchlist and the file stay as they are.
C8_Original_FailureReportedEverywhere ==
    [][/\ BatchKeepsGoing
       /\ (refreshes' = 1 \/ lastOp'.op = "export") =>
             \A i \in FailedIn(lastOp'.worlds) :
                 ErrorsFor(reports', tickers_list'[i]) # {}]_vars

\* C8 as amended: a refresh reports every failed ticker, once; an export
\* reports no ticker at all (it only says "No data to export." when all failed);
\* in both the batch goes on and the watchlist and the file stay as they are.
C8_FailureReportedByRefreshOnly ==
    [][/\ BatchKeepsGoing
       /\ refreshes' = 1 =>
             /\ \A i \in FailedIn(lastOp'.worlds) :
                    Cardinality(ErrorsFor(reports', tickers_list'[i])) = 1
             /\ Len(reports') = Cardinality(FailedIn(lastOp'.worlds))
       /\ lastOp'.op = "export" =>
             /\ \A i \in DOMAIN reports' : reports'[i][1] # "error"
             /\ Len(reports') <= 1]_vars

\* An export in which a ticker failed, nothing was reported for it and the
\* ticker after it was still written.
C8_Witness ==
    /\ lastOp.op = "export"
    /\ Len(tickers_list) = 2
    /\ lastOp.worlds = <<"http_error", "ok">>
    /\ Len(exported) = 2
    /\ \A i \in DOMAIN reports : reports[i][1] # "error"

(***************************************************************************)
(* C10                                                                     *)
(***************************************************************************)
\* C10 as stated: the startup code leaves the normalised persisted sequence as
\* the watchlist, and adds the seed only when that sequence is empty.
C10_Original_SeedOnlyWhenEmpty ==
    [][(pc = "boot" /\ pc' = "running") =>
         tickers_list' = (IF NormalisedFile(file_exists, file) = <<>>
                          THEN <<SEED>>
                          ELSE NormalisedFile(file_exists, file))]_vars

\* C10 as amended: the startup code leaves the normalised persisted sequence as
\* the watchlist, with the seed appended at its end whenever the seed is not in
\* it (an empty sequence and a missing file included); a sequence that holds the
\* seed is loaded as it is, and nothing is saved.
C10_SeedWheneverAbsent ==
    [][(pc = "boot" /\ pc' = "running") =>
         /\ tickers_list' =
              (IF SEED \in Range(NormalisedFile(file_exists, file))
               THEN NormalisedFile(file_exists, file)
               ELSE Append(NormalisedFile(file_exists, file), SEED))
         /\ (saves' = 0) <=> (SEED \in Range(NormalisedFile(file_exists, file)))
         /\ saves' = 0 => (file' = file /\ file_exists' = file_exists)]_vars

\* The startup code appended the seed to a persisted watchlist that was not empty.
C10_Witness ==
    /\ lastOp.op = "startup"
    /\ tickers_list = << <<"A", "A">>, SEED >>
    /\ file = <<"A", "A", "\n">> \o SEED \o <<"\n">>
    /\ saves = 1

(***************************************************************************)
(* C4                                                                      *)
(***************************************************************************)
\* C4: a watchlist of distinct symbols, persisted and loaded into an empty
\* store, comes back entry for entry; loading the same file again changes
\* nothing.
C4_RoundTrip ==
    /\ (/\ pc \in {"loaded", "reloaded"}
        /\ NoDuplicates(lastOp.input)
        /\ \A i \in DOMAIN lastOp.input : IsSymbol(lastOp.input[i])) =>
          tickers_list = lastOp.input
    /\ pc = "reloaded" => tickers_list = lastOp.worlds

\* Two distinct symbols, one a prefix of the other, came back after the second load.
C4_Witness ==
    /\ pc = "reloaded"
    /\ lastOp.input = << <<"A", "B">>, <<"A">> >>
    /\ tickers_list = << <<"A", "B">>, <<"A">> >>

(***************************************************************************)
(* C5                                                                      *)
(***************************************************************************)
\* C5: a record the extractor returns has exactly the 22 column names as keys
\* and a text, never None, under each.
C5_RecordComplete ==
    (xpc = "done" /\ xresult.raised = "none") =>
        /\ DOMAIN xresult.data = Range(columns)
        /\ Cardinality(DOMAIN xresult.data) = 22
        /\ \A k \in DOMAIN xresult.data : xresult.data[k] # None

\* A record was returned although the page had no snapshot table and no
\* fragment, and both enrichment queries raised.
C5_Witness ==
    /\ xpc = "done"
    /\ xresult.raised = "none"
    /\ ~xworld.table
    /\ xworld.company = <<>> /\ xworld.sector = <<>> /\ xworld.price = <<>>
    /\ xworld.bal.raises
    /\ xworld.hist.raises

(***************************************************************************)
(* C9                                                                      *)
(***************************************************************************)
\* Whether a row of the balance sheet resolves, and the text it resolves to.
Resolves(bal, index_name) ==
    index_name \in DOMAIN bal.rows /\ bal.rows[index_name].kind # "raise"

\* C9: with a balance sheet that was obtained and is not empty, the record is
\* returned; each of the two balance-sheet fields that resolves holds its
\* formatted value whatever happened to the other, each that does not is "N/A",
\* and every other field is what it is without any balance sheet.
C9_BalanceFieldsIndependent ==
    (xpc = "done" /\ xworld.http = "ok" /\ ~xworld.bal.raises /\ ~xworld.bal.empty) =>
        /\ xresult.raised = "none"
        /\ xresult.data["Total Assets"] =
             (IF Resolves(xworld.bal, "Total Assets")
              THEN FormatCell(xworld.bal.rows["Total Assets"]) ELSE NA)
        /\ xresult.data["Total Liabilities"] =
             (IF Resolves(xworld.bal, "Total Liabilities Net Minority Interest")
              THEN FormatCell(xworld.bal.rows["Total Liabilities Net Minority Interest"])
              ELSE NA)
        /\ \A k \in Range(columns) \ {"Total Assets", "Total Liabilities"} :
             xresult.data[k] =
                scrape_finviz_and_fill(xticker, [xworld EXCEPT !.bal = NoBalance]).data[k]

====
